---- MODULE Spec2Model ----
(***************************************************************************)
(* Streaming JSON reader and writer of json.hpp, and the driver of         *)
(* main.cpp that connects them: every Item the reader delivers to its      *)
(* callback is written by a writer to an output sink.                      *)
(*                                                                         *)
(* Characters are their integer codes (char is an integer type); a string  *)
(* is a sequence of codes.  A std::stack is a sequence whose last element  *)
(* is the top.  The operators below work on a "machine" record M holding   *)
(* the reader's fields, the writer's fields, the output sink, the log of   *)
(* the Items delivered to the callback and the exception in flight; they   *)
(* are the member functions of the two classes, statement by statement.    *)
(***************************************************************************)
EXTENDS Integers, Sequences, FiniteSets, TLC

VARIABLES
    m_char_state,   \* basic_reader::m_char_state
    m_token_state,  \* basic_reader::m_token_state (stack, top last)
    m_data,         \* basic_reader::m_data (literal buffer)
    m_row,          \* basic_reader::m_row
    m_column,       \* basic_reader::m_column
    m_unicode,      \* basic_reader::m_unicode (16 bits)
    m_state,        \* basic_writer::m_state (stack, top last)
    m_indent,       \* basic_writer::m_indent
    output,         \* the characters written to the output iterator
    items,          \* the Items passed to the callback / to write, in order
    exc,            \* the exception the last call raised, NoExc if it returned
    written,        \* the Items whose write call returned, in order
    fed,            \* the characters passed to operator(), with their outcome
    pending,        \* characters of the input source not yet fed
    alphabet        \* characters the input source may produce

vars == <<m_char_state, m_token_state, m_data, m_row, m_column, m_unicode,
          m_state, m_indent, output, items, written, exc, fed, pending,
          alphabet>>

-----------------------------------------------------------------------------
(* Characters *)

chr == [lbrace |-> 123, rbrace |-> 125, lbracket |-> 91, rbracket |-> 93,
        colon |-> 58, comma |-> 44, quote |-> 34, backslash |-> 92,
        slash |-> 47, minus |-> 45, plus |-> 43, dot |-> 46,
        space |-> 32, bs |-> 8, tab |-> 9, nl |-> 10, vt |-> 11, ff |-> 12,
        cr |-> 13, zero |-> 48, one |-> 49, two |-> 50, four |-> 52, five |-> 53,
        nine |-> 57,
        A |-> 65, E |-> 69, F |-> 70,
        a |-> 97, b |-> 98, e |-> 101, f |-> 102, l |-> 108, n |-> 110,
        r |-> 114, s |-> 115, t |-> 116, u |-> 117, x |-> 120, y |-> 121]

\* std::isspace in the "C" locale
isspace(input) == input \in {chr.space, chr.tab, chr.nl, chr.vt, chr.ff, chr.cr}

\* std::isdigit
isdigit(input) == input >= chr.zero /\ input <= chr.nine

\* std::isxdigit
isxdigit(input) ==
    \/ isdigit(input)
    \/ (input >= chr.a /\ input <= chr.f)
    \/ (input >= chr.A /\ input <= chr.F)

-----------------------------------------------------------------------------
(* json::exception and json::item *)

\* thrower is not a member of json::exception: it records the class whose
\* member function executed the throw statement
NoExc == [what |-> "", row |-> 0, column |-> 0, thrower |-> ""]

exception(what, row, column, thrower) ==
    [what |-> what, row |-> row, column |-> column, thrower |-> thrower]

bad_exception(thrower) ==
    [what |-> "std::bad_exception", row |-> 0, column |-> 0, thrower |-> thrower]

\* an exception is in flight: the statements that follow the throw, up to the
\* caller of operator() or write, are not executed.  The member functions
\* below that can follow a throwing call in a statement leave M as it is then.
Raised(M) == M.exc # NoExc

throw(M, e) == [M EXCEPT !.exc = e]

item == {"object_begin", "object_end", "array_begin", "array_end", "key",
         "string_value", "integer_value", "real_value", "null_value",
         "true_value", "false_value"}

-----------------------------------------------------------------------------
(* basic_writer *)

Top(stack) == stack[Len(stack)]

writer_push(M, state) == [M EXCEPT !.m_state = Append(@, state)]

writer_jump(M, state) == [M EXCEPT !.m_state[Len(M.m_state)] = state]


\* pop that leaves the stack as it is
writer_pop_none(M) == M

writer_pop(M) == [M EXCEPT !.m_state = SubSeq(@, 1, Len(@) - 1)]

\* fill_n writing half of the spaces asked for
fill_n_half(n) == [i \in 1..(n \div 2) |-> chr.space]

\* std::fill_n(output, n, ' ')
fill_n(n) == [i \in 1..n |-> chr.space]


\* endl without the test of m_indent
endl_always(M) ==
    [M EXCEPT !.output =
         (@ \o <<chr.nl>>) \o fill_n(Len(M.m_state) * M.m_indent)]

endl(M) ==
    IF M.m_indent # 0
    THEN [M EXCEPT !.output =
              (@ \o <<chr.nl>>) \o fill_n(Len(M.m_state) * M.m_indent)]
    ELSE M


\* encode without its switch: every character is copied as it is
encode_verbatim(input) == <<input>>

\* the lambda encode of basic_writer::string
encode(input) ==
    CASE input = chr.quote     -> <<chr.backslash, chr.quote>>
      [] input = chr.backslash -> <<chr.backslash, chr.backslash>>
      [] input = chr.slash     -> <<chr.backslash, chr.slash>>
      [] input = chr.bs        -> <<chr.backslash, chr.b>>
      [] input = chr.ff        -> <<chr.backslash, chr.f>>
      [] input = chr.nl        -> <<chr.backslash, chr.n>>
      [] input = chr.cr        -> <<chr.backslash, chr.r>>
      [] input = chr.tab       -> <<chr.backslash, chr.t>>
      [] OTHER                 -> <<input>>

\* std::for_each(data.begin(), data.end(), encode)
RECURSIVE for_each_encode(_)
for_each_encode(data) ==
    IF data = <<>> THEN <<>>
    ELSE encode(Head(data)) \o for_each_encode(Tail(data))

string(M, data) ==
    [M EXCEPT !.output =
         ((@ \o <<chr.quote>>) \o for_each_encode(data)) \o <<chr.quote>>]

writer_token(M, data) == [M EXCEPT !.output = @ \o data]

object_begin_data == <<chr.lbrace>>
object_end_data == <<chr.rbrace>>
array_begin_data == <<chr.lbracket>>
array_end_data == <<chr.rbracket>>

\* a separator with a space after the comma
comma_space_data == <<chr.comma, chr.space>>

comma_data == <<chr.comma>>
colon_data == <<chr.colon, chr.space>>
null_data == <<chr.n, chr.u, chr.l, chr.l>>
true_data == <<chr.t, chr.r, chr.u, chr.e>>
false_data == <<chr.f, chr.a, chr.l, chr.s, chr.e>>

\* the text a value Item puts out: string(data) for a string, the payload
\* itself for a number, the literal's name otherwise
write_value(M, it, data) ==
    CASE it = "string_value"  -> string(M, data)
      [] it = "integer_value" -> writer_token(M, data)
      [] it = "real_value"    -> writer_token(M, data)
      [] it = "null_value"    -> writer_token(M, null_data)
      [] it = "true_value"    -> writer_token(M, true_data)
      [] it = "false_value"   -> writer_token(M, false_data)

scalar_item == {"string_value", "integer_value", "real_value", "null_value",
                "true_value", "false_value"}

\* the empty-stack branch of a writer that writes one document only
write_empty_once(M, it, data) ==
    CASE it = "object_begin" /\ M.output = <<>> ->
           writer_push(writer_token(M, object_begin_data), "object_1_state")
      [] it = "array_begin" /\ M.output = <<>> ->
           writer_push(writer_token(M, array_begin_data), "array_1_state")
      [] OTHER ->
           throw(M, exception("object or array begin expected", 0, 0,
                              "basic_writer"))

\* if (m_state.empty()) { ... }
write_empty(M, it, data) ==
    CASE it = "object_begin" ->
           writer_push(writer_token(M, object_begin_data), "object_1_state")
      [] it = "array_begin" ->
           writer_push(writer_token(M, array_begin_data), "array_1_state")
      [] OTHER ->
           throw(M, exception("object or array begin expected", 0, 0,
                              "basic_writer"))

\* case object_1_state, leaving the object before it refuses the Item
write_object_1_popped(M, it, data) ==
    CASE it = "object_end" ->
           writer_token(writer_pop(M), object_end_data)
      [] it = "key" ->
           writer_jump(writer_token(string(endl(M), data), colon_data),
                       "object_v_state")
      [] OTHER ->
           throw(writer_pop(M), exception("object end or key expected", 0, 0,
                                          "basic_writer"))

\* case object_1_state
write_object_1(M, it, data) ==
    CASE it = "object_end" ->
           writer_token(writer_pop(M), object_end_data)
      [] it = "key" ->
           writer_jump(writer_token(string(endl(M), data), colon_data),
                       "object_v_state")
      [] OTHER ->
           throw(M, exception("object end or key expected", 0, 0,
                              "basic_writer"))

\* case object_v_state
write_object_v(M, it, data) ==
    CASE it = "object_begin" ->
           writer_push(writer_jump(writer_token(M, object_begin_data),
                                   "object_n_state"),
                       "object_1_state")
      [] it = "array_begin" ->
           writer_push(writer_jump(writer_token(M, array_begin_data),
                                   "object_n_state"),
                       "array_1_state")
      [] it \in scalar_item ->
           writer_jump(write_value(M, it, data), "object_n_state")
      [] OTHER ->
           throw(M, exception("value expected", 0, 0, "basic_writer"))


\* case object_n_state closing the object on either End
write_object_n_either(M, it, data) ==
    CASE it \in {"object_end", "array_end"} ->
           writer_token(endl(writer_pop(M)), object_end_data)
      [] it = "key" ->
           writer_jump(
               writer_token(string(endl(writer_token(M, comma_data)), data),
                            colon_data),
               "object_v_state")
      [] OTHER ->
           throw(M, exception("object end of key expected", 0, 0,
                              "basic_writer"))

\* case object_n_state
write_object_n(M, it, data) ==
    CASE it = "object_end" ->
           writer_token(endl(writer_pop(M)), object_end_data)
      [] it = "key" ->
           writer_jump(
               writer_token(string(endl(writer_token(M, comma_data)), data),
                            colon_data),
               "object_v_state")
      [] OTHER ->
           throw(M, exception("object end of key expected", 0, 0,
                              "basic_writer"))

\* case array_1_state
write_array_1(M, it, data) ==
    CASE it = "array_end" ->
           writer_token(writer_pop(M), array_end_data)
      [] it = "object_begin" ->
           writer_push(writer_jump(writer_token(endl(M), object_begin_data),
                                   "array_n_state"),
                       "object_1_state")
      [] it = "array_begin" ->
           writer_push(writer_jump(writer_token(endl(M), array_begin_data),
                                   "array_n_state"),
                       "array_1_state")
      [] it \in scalar_item ->
           writer_jump(write_value(endl(M), it, data), "array_n_state")
      [] OTHER ->
           throw(M, exception("array end of value expected", 0, 0,
                              "basic_writer"))

\* case array_n_state
write_array_n(M, it, data) ==
    CASE it = "array_end" ->
           writer_token(endl(writer_pop(M)), array_end_data)
      [] it = "object_begin" ->
           writer_push(writer_token(endl(writer_token(M, comma_data)),
                                    object_begin_data),
                       "object_1_state")
      [] it = "array_begin" ->
           writer_push(writer_token(endl(writer_token(M, comma_data)),
                                    array_begin_data),
                       "array_1_state")
      [] it \in scalar_item ->
           write_value(endl(writer_token(M, comma_data)), it, data)
      [] OTHER ->
           throw(M, exception("array end of value expected", 0, 0,
                              "basic_writer"))

write(M, it, data) ==
    IF M.m_state = <<>>
    THEN write_empty(M, it, data)
    ELSE CASE Top(M.m_state) = "object_1_state" -> write_object_1(M, it, data)
           [] Top(M.m_state) = "object_v_state" -> write_object_v(M, it, data)
           [] Top(M.m_state) = "object_n_state" -> write_object_n(M, it, data)
           [] Top(M.m_state) = "array_1_state" -> write_array_1(M, it, data)
           [] Top(M.m_state) = "array_n_state" -> write_array_n(M, it, data)
           [] OTHER -> throw(M, bad_exception("basic_writer"))

-----------------------------------------------------------------------------
(* basic_reader *)

\* enum token
tokens == {"object_begin_token", "object_end_token", "array_begin_token",
           "array_end_token", "colon_token", "comma_token", "string_token",
           "integer_token", "real_token", "null_token", "true_token",
           "false_token"}

reader_push(M, state) ==
    IF Raised(M) THEN M ELSE [M EXCEPT !.m_token_state = Append(@, state)]

reader_jump(M, state) ==
    IF Raised(M) THEN M
    ELSE [M EXCEPT !.m_token_state[Len(M.m_token_state)] = state]


\* pop that leaves the stack as it is
reader_pop_none(M) == M

reader_pop(M) ==
    IF Raised(M) THEN M
    ELSE [M EXCEPT !.m_token_state = SubSeq(@, 1, Len(@) - 1)]

\* the callback given the position past the character being fed
delivered_past(M, it) ==
    [M EXCEPT !.items = Append(@, [item |-> it, data |-> M.m_data,
                                   row |-> M.m_row,
                                   column |-> M.m_column + 1])]

\* the callback is entered with (item, m_data, m_row, m_column)
delivered(M, it) ==
    [M EXCEPT !.items = Append(@, [item |-> it, data |-> M.m_data,
                                   row |-> M.m_row, column |-> M.m_column])]

\* the callback has returned from writer.write
returned(W, it) ==
    IF Raised(W) THEN W ELSE [W EXCEPT !.written = Append(@, it)]

\* m_callback(item, m_data, m_row, m_column): the lambda of main.cpp hands the
\* Item to writer.write; a collecting callback only records it
callback(M, it) ==
    IF M.sink = "write"
    THEN returned(write(delivered(M, it), it, M.m_data), it)
    ELSE delivered(M, it)

\* call returning with the buffer as it was
clear_none(M) == M

\* m_data.clear()
clear(M) == IF Raised(M) THEN M ELSE [M EXCEPT !.m_data = <<>>]

call(M, it) == clear(callback(M, it))

\* no return statement reached yet
NoStmt == [item |-> "", op |-> "", state |-> ""]

\* token leaves through a statement `return call(item), op(state)`: the case
\* taken chooses its operands, and token evaluates it, the callback first
\* return call(item)
return_call(M, it) ==
    [M EXCEPT !.stmt = [item |-> it, op |-> "", state |-> ""]]

\* return call(item), push(state)
call_push(M, it, state) ==
    [M EXCEPT !.stmt = [item |-> it, op |-> "push", state |-> state]]

\* return call(item), pop()
call_pop(M, it) ==
    [M EXCEPT !.stmt = [item |-> it, op |-> "pop", state |-> ""]]

\* return call(item), jump(state)
call_jump(M, it, state) ==
    [M EXCEPT !.stmt = [item |-> it, op |-> "jump", state |-> state]]

\* the right operand of the comma, reached when call has returned
comma(M, stmt) ==
    CASE stmt.op = "push" -> reader_push(M, stmt.state)
      [] stmt.op = "pop"  -> reader_pop(M)
      [] stmt.op = "jump" -> reader_jump(M, stmt.state)
      [] OTHER -> M

return(S) ==
    IF Raised(S) \/ S.stmt = NoStmt THEN S
    ELSE comma(call([S EXCEPT !.stmt = NoStmt], S.stmt.item), S.stmt)

\* the value tokens shared by object_v_state and array_v_state; the caller
\* has already jumped to the state that follows the value
token_value(M, input, what) ==
    CASE input = "object_begin_token" -> call_push(M, "object_begin", "object_1_state")
      [] input = "array_begin_token"  -> call_push(M, "array_begin", "array_1_state")
      [] input = "string_token"       -> return_call(M, "string_value")
      [] input = "integer_token"      -> return_call(M, "integer_value")
      [] input = "real_token"         -> return_call(M, "real_value")
      [] input = "null_token"         -> return_call(M, "null_value")
      [] input = "true_token"         -> return_call(M, "true_value")
      [] input = "false_token"        -> return_call(M, "false_value")
      [] OTHER -> throw(M, exception(what, M.m_row, M.m_column, "basic_reader"))

\* case object_2_state taking a closing brace as object_1_state does
token_object_2_end(M, input) ==
    CASE input = "string_token" -> call_jump(M, "key", "object_3_state")
      [] input = "object_end_token" -> call_pop(M, "object_end")
      [] OTHER -> throw(M, exception("key or \"}\" expected", M.m_row,
                                     M.m_column, "basic_reader"))

\* case object_2_state, which case object_1_state falls into
token_object_2(M, input) ==
    IF input = "string_token"
    THEN call_jump(M, "key", "object_3_state")
    ELSE throw(M, exception("key or \"}\" expected", M.m_row, M.m_column, "basic_reader"))

\* case array_v_state jumping only when it takes the token
token_array_v_late(M, input) ==
    IF Raised(token_value(M, input, "value or \"]\" expected"))
    THEN token_value(M, input, "value or \"]\" expected")
    ELSE token_value(reader_jump(M, "array_n_state"), input,
                     "value or \"]\" expected")

\* case array_v_state, which case array_1_state falls into
token_array_v(M, input) ==
    token_value(reader_jump(M, "array_n_state"), input, "value or \"]\" expected")


\* the empty-stack branch taking any token but a closing bracket as a Begin
token_empty_lenient(M, input) ==
    CASE input = "object_begin_token" ->
           call_push(M, "object_begin", "object_1_state")
      [] input \in {"object_end_token", "array_end_token"} ->
           throw(M, exception("\"{\" or \"[\" expected", M.m_row, M.m_column,
                              "basic_reader"))
      [] OTHER ->
           call_push(M, "array_begin", "array_1_state")

\* if (m_token_state.empty()) { ... }
token_empty(M, input) ==
    CASE input = "object_begin_token" ->
           call_push(M, "object_begin", "object_1_state")
      [] input = "array_begin_token" ->
           call_push(M, "array_begin", "array_1_state")
      [] OTHER ->
           throw(M, exception("\"{\" or \"[\" expected", M.m_row, M.m_column,
                              "basic_reader"))

switch(M, input) ==
    IF M.m_token_state = <<>>
    THEN token_empty(M, input)
    ELSE CASE Top(M.m_token_state) = "object_1_state" ->
                IF input = "object_end_token"
                THEN call_pop(M, "object_end")
                ELSE token_object_2(M, input)
           [] Top(M.m_token_state) = "object_2_state" ->
                token_object_2(M, input)
           [] Top(M.m_token_state) = "object_3_state" ->
                IF input = "colon_token"
                THEN reader_jump(M, "object_v_state")
                ELSE throw(M, exception("\":\" expected", M.m_row, M.m_column, "basic_reader"))
           [] Top(M.m_token_state) = "object_v_state" ->
                token_value(reader_jump(M, "object_n_state"), input, "value expected")
           [] Top(M.m_token_state) = "object_n_state" ->
                CASE input = "object_end_token" -> call_pop(M, "object_end")
                  [] input = "comma_token" -> reader_jump(M, "object_2_state")
                  [] OTHER -> throw(M, exception("\"}\" or \",\" expected",
                                                 M.m_row, M.m_column,
                                                 "basic_reader"))
           [] Top(M.m_token_state) = "array_1_state" ->
                IF input = "array_end_token"
                THEN call_pop(M, "array_end")
                ELSE token_array_v(M, input)
           [] Top(M.m_token_state) = "array_v_state" ->
                token_array_v(M, input)
           [] Top(M.m_token_state) = "array_n_state" ->
                CASE input = "array_end_token" -> call_pop(M, "array_end")
                  [] input = "comma_token" -> reader_jump(M, "array_v_state")
                  [] OTHER -> throw(M, exception("\"]\" or \",\" expected",
                                                 M.m_row, M.m_column,
                                                 "basic_reader"))
           [] OTHER -> throw(M, bad_exception("basic_reader"))

token(M, input) == return(switch(M, input))

next(M, state) ==
    IF Raised(M) THEN M ELSE [M EXCEPT !.m_char_state = state, !.ret = TRUE]

\* repeat reporting the character as consumed
repeat_consumed(M, state) ==
    IF Raised(M) THEN M ELSE [M EXCEPT !.m_char_state = state, !.ret = TRUE]

repeat(M, state) ==
    IF Raised(M) THEN M ELSE [M EXCEPT !.m_char_state = state, !.ret = FALSE]

take(M, input) == [M EXCEPT !.m_data = Append(@, input)]

\* take_unicode appending the low byte of the code point, whatever its size
take_unicode_low(M) ==
    IF Raised(M) THEN M
    ELSE [M EXCEPT !.m_data = Append(@, M.m_unicode % 256), !.m_unicode = 0]

take_unicode(M) ==
    LET u == M.m_unicode
        bytes == IF u < 128 THEN <<u>>
                 ELSE IF u < 2048
                      THEN <<192 + ((u \div 64) % 32), 128 + (u % 64)>>
                      ELSE <<224 + ((u \div 4096) % 16),
                             128 + ((u \div 64) % 64),
                             128 + (u % 64)>>
    IN IF Raised(M) THEN M
       ELSE [M EXCEPT !.m_data = @ \o bytes, !.m_unicode = 0]

unicode(M, input) ==
    LET known == \/ (input >= chr.zero /\ input <= chr.nine)
                 \/ (input >= chr.a /\ input <= chr.f)
                 \/ (input >= chr.A /\ input <= chr.F)
        digit == IF input >= chr.zero /\ input <= chr.nine
                 THEN input - chr.zero
                 ELSE IF input >= chr.a /\ input <= chr.f
                      THEN input - chr.a + 10
                      ELSE input - chr.A + 10
    IN IF known
       THEN [M EXCEPT !.m_unicode = ((@ * 16) % 65536) + digit]
       ELSE throw(M, bad_exception("basic_reader"))

\* return token(t), next(state)
token_next(M, t, state) == next(token(M, t), state)

\* return token(t), repeat(state)
token_repeat(M, t, state) == repeat(token(M, t), state)

\* return unicode(input), next(state)
unicode_next(M, input, state) == next(unicode(M, input), state)


\* the throw with the position arguments left to their defaults
unexpected_unpositioned(M) ==
    throw(M, exception("unexpected character", 0, 0, "basic_reader"))

\* throw json::exception("unexpected character", m_row, m_column)
unexpected(M) ==
    throw(M, exception("unexpected character", M.m_row, M.m_column,
                       "basic_reader"))


\* case integer_z_state taking further digits as integer_n_state does
scan_integer_z_digits(M, input) ==
    CASE isdigit(input) -> next(take(M, input), "integer_n_state")
      [] input = chr.dot -> next(take(M, input), "fractional_1_state")
      [] input = chr.e \/ input = chr.E -> next(take(M, input), "exponent_state")
      [] OTHER -> token_repeat(M, "integer_token", "default_state")

\* case integer_z_state, which case integer_n_state falls into
scan_integer_z(M, input) ==
    CASE input = chr.dot -> next(take(M, input), "fractional_1_state")
      [] input = chr.e \/ input = chr.E -> next(take(M, input), "exponent_state")
      [] OTHER -> token_repeat(M, "integer_token", "default_state")

\* one literal-chain state: the expected character leads on, any other throws
scan_expect(M, input, expected, state) ==
    IF input = expected THEN next(M, state) ELSE unexpected(M)

scan_default(M, input) ==
    CASE isspace(input) -> next(M, "default_state")
      [] input = chr.lbrace -> token_next(M, "object_begin_token", "default_state")
      [] input = chr.rbrace -> token_next(M, "object_end_token", "default_state")
      [] input = chr.lbracket -> token_next(M, "array_begin_token", "default_state")
      [] input = chr.rbracket -> token_next(M, "array_end_token", "default_state")
      [] input = chr.colon -> token_next(M, "colon_token", "default_state")
      [] input = chr.comma -> token_next(M, "comma_token", "default_state")
      [] input = chr.quote -> next(M, "string_state")
      [] input = chr.minus -> next(take(M, input), "integer_1_state")
      [] input = chr.n -> next(M, "null_1_state")
      [] input = chr.t -> next(M, "true_1_state")
      [] input = chr.f -> next(M, "false_1_state")
      [] isdigit(input) ->
           next(take(M, input),
                IF input = chr.zero THEN "integer_z_state" ELSE "integer_n_state")
      [] OTHER -> unexpected(M)

\* case escape_state taking the character after the backslash as it stands
scan_escape_letter(M, input) ==
    IF input = chr.u THEN next(M, "unicode_1_state")
    ELSE next(take(M, input), "string_state")

scan_escape(M, input) ==
    CASE input = chr.quote     -> next(take(M, chr.quote), "string_state")
      [] input = chr.backslash -> next(take(M, chr.backslash), "string_state")
      [] input = chr.slash     -> next(take(M, chr.slash), "string_state")
      [] input = chr.b         -> next(take(M, chr.bs), "string_state")
      [] input = chr.f         -> next(take(M, chr.ff), "string_state")
      [] input = chr.n         -> next(take(M, chr.nl), "string_state")
      [] input = chr.r         -> next(take(M, chr.cr), "string_state")
      [] input = chr.t         -> next(take(M, chr.tab), "string_state")
      [] input = chr.u         -> next(M, "unicode_1_state")
      [] OTHER -> unexpected(M)

scan(M, input) ==
    CASE M.m_char_state = "default_state" -> scan_default(M, input)
      [] M.m_char_state = "string_state" ->
           CASE input = chr.quote -> token_next(M, "string_token", "default_state")
             [] input = chr.backslash -> next(M, "escape_state")
             [] OTHER -> next(take(M, input), "string_state")
      [] M.m_char_state = "escape_state" -> scan_escape(M, input)
      [] M.m_char_state = "unicode_1_state" ->
           IF isxdigit(input) THEN unicode_next(M, input, "unicode_2_state")
           ELSE unexpected(M)
      [] M.m_char_state = "unicode_2_state" ->
           IF isxdigit(input) THEN unicode_next(M, input, "unicode_3_state")
           ELSE unexpected(M)
      [] M.m_char_state = "unicode_3_state" ->
           IF isxdigit(input) THEN unicode_next(M, input, "unicode_4_state")
           ELSE unexpected(M)
      [] M.m_char_state = "unicode_4_state" ->
           IF isxdigit(input)
           THEN next(take_unicode(unicode(M, input)), "string_state")
           ELSE unexpected(M)
      [] M.m_char_state = "integer_1_state" ->
           IF isdigit(input)
           THEN next(take(M, input),
                     IF input = chr.zero THEN "integer_z_state" ELSE "integer_n_state")
           ELSE unexpected(M)
      [] M.m_char_state = "integer_n_state" ->
           IF isdigit(input)
           THEN next(take(M, input), "integer_n_state")
           ELSE scan_integer_z(M, input)
      [] M.m_char_state = "integer_z_state" -> scan_integer_z(M, input)
      [] M.m_char_state = "fractional_1_state" ->
           IF isdigit(input) THEN next(take(M, input), "fractional_n_state")
           ELSE unexpected(M)
      [] M.m_char_state = "fractional_n_state" ->
           CASE isdigit(input) -> next(take(M, input), "fractional_n_state")
             [] input = chr.e \/ input = chr.E ->
                  next(take(M, input), "exponent_state")
             [] OTHER -> token_repeat(M, "real_token", "default_state")
      [] M.m_char_state = "exponent_state" ->
           CASE isdigit(input) -> next(take(M, input), "exponent_n_state")
             [] input = chr.minus \/ input = chr.plus ->
                  next(take(M, input), "exponent_1_state")
             [] OTHER -> unexpected(M)
      [] M.m_char_state = "exponent_1_state" ->
           IF isdigit(input) THEN next(take(M, input), "exponent_n_state")
           ELSE unexpected(M)
      [] M.m_char_state = "exponent_n_state" ->
           IF isdigit(input) THEN next(take(M, input), "exponent_n_state")
           ELSE token_repeat(M, "real_token", "default_state")
      [] M.m_char_state = "null_1_state" -> scan_expect(M, input, chr.u, "null_2_state")
      [] M.m_char_state = "null_2_state" -> scan_expect(M, input, chr.l, "null_3_state")
      [] M.m_char_state = "null_3_state" ->
           IF input = chr.l THEN token_next(M, "null_token", "default_state")
           ELSE unexpected(M)
      [] M.m_char_state = "true_1_state" -> scan_expect(M, input, chr.r, "true_2_state")
      [] M.m_char_state = "true_2_state" -> scan_expect(M, input, chr.u, "true_3_state")
      [] M.m_char_state = "true_3_state" ->
           IF input = chr.e THEN token_next(M, "true_token", "default_state")
           ELSE unexpected(M)
      [] M.m_char_state = "false_1_state" -> scan_expect(M, input, chr.a, "false_2_state")
      [] M.m_char_state = "false_2_state" -> scan_expect(M, input, chr.l, "false_3_state")
      [] M.m_char_state = "false_3_state" -> scan_expect(M, input, chr.s, "false_4_state")
      [] M.m_char_state = "false_4_state" ->
           IF input = chr.e THEN token_next(M, "false_token", "default_state")
           ELSE unexpected(M)
      [] OTHER -> unexpected(M)


\* move that counts the newline as one more column of the next row
move_no_reset(M, input) ==
    IF Raised(M) THEN M
    ELSE IF input = chr.nl
         THEN [M EXCEPT !.m_column = @ + 1, !.m_row = @ + 1, !.moves = @ + 1]
         ELSE [M EXCEPT !.m_column = @ + 1, !.moves = @ + 1]

\* moves counts the calls of move, as scans counts those of scan
move(M, input) ==
    IF Raised(M) THEN M
    ELSE IF input = chr.nl
         THEN [M EXCEPT !.m_column = 1, !.m_row = @ + 1, !.moves = @ + 1]
         ELSE [M EXCEPT !.m_column = @ + 1, !.moves = @ + 1]

\* while (!scan(input)) continue;
RECURSIVE scan_loop(_, _)
continue(S, input) ==
    IF Raised(S) \/ S.ret THEN S ELSE scan_loop(S, input)

scan_loop(M, input) ==
    continue(scan([M EXCEPT !.scans = @ + 1], input), input)

\* basic_reader::operator()(input)
feed(M, input) == move(scan_loop(M, input), input)

\* std::for_each of a whole character sequence over one reader, stopping at
\* the first exception
RECURSIVE feed_all(_, _)
feed_all(M, chars) ==
    IF chars = <<>> \/ Raised(M) THEN M
    ELSE feed_all(feed(M, Head(chars)), Tail(chars))

\* std::for_each takes its function object by value: the reader that was fed
\* is the copy C of *this, discarded on return; *this keeps its own members,
\* and the copied callback still refers to the one writer
by_value(M, C) ==
    [C EXCEPT !.m_char_state = M.m_char_state,
              !.m_token_state = M.m_token_state,
              !.m_data = M.m_data,
              !.m_row = M.m_row,
              !.m_column = M.m_column,
              !.m_unicode = M.m_unicode]

\* basic_reader::read(first, last)
read(M, chars) == by_value(M, feed_all(M, chars))

-----------------------------------------------------------------------------
(* The state machine *)

MaxInput == 6       \* characters fed to one reader by the exploring source
MaxRetry == 1       \* feeds made after the first feed that raised
MaxItems == 4       \* write calls made on one writer by a direct caller
MaxNodes == 4       \* values (scalars and containers) in a generated document
MaxReads == 2       \* read calls made on one reader over one document
MaxText == 3        \* characters in a string payload written and read back

\* the objects as they stand, at the start of a call
Machine ==
    [m_char_state |-> m_char_state, m_token_state |-> m_token_state,
     m_data |-> m_data, m_row |-> m_row, m_column |-> m_column,
     m_unicode |-> m_unicode, m_state |-> m_state, m_indent |-> m_indent,
     output |-> output, items |-> items, written |-> written,
     exc |-> NoExc, ret |-> TRUE, stmt |-> NoStmt, scans |-> 0, moves |-> 0,
     sink |-> "write"]

\* a newly constructed reader whose callback only collects the Items
Collector ==
    [m_char_state |-> "default_state", m_token_state |-> <<>>,
     m_data |-> <<>>, m_row |-> 1, m_column |-> 1,
     m_unicode |-> 0, m_state |-> <<>>, m_indent |-> 0,
     output |-> <<>>, items |-> <<>>, written |-> <<>>,
     exc |-> NoExc, ret |-> TRUE, stmt |-> NoStmt, scans |-> 0, moves |-> 0,
     sink |-> "collect"]

\* the objects as a call leaves them
Becomes(M) ==
    /\ m_char_state' = M.m_char_state
    /\ m_token_state' = M.m_token_state
    /\ m_data' = M.m_data
    /\ m_row' = M.m_row
    /\ m_column' = M.m_column
    /\ m_unicode' = M.m_unicode
    /\ m_state' = M.m_state
    /\ output' = M.output
    /\ items' = M.items
    /\ written' = M.written
    /\ exc' = M.exc
    /\ UNCHANGED m_indent

\* json::reader reader(read); json::writer writer;
Constructed ==
    /\ m_char_state = "default_state"
    /\ m_token_state = <<>>
    /\ m_data = <<>>
    /\ m_row = 1
    /\ m_column = 1
    /\ m_unicode = 0
    /\ m_state = <<>>
    /\ output = <<>>
    /\ items = <<>>
    /\ written = <<>>
    /\ exc = NoExc
    /\ fed = <<>>

\* std::size_t m_indent = 2
DefaultIndent == 2

\* the widths a caller gives writer.indent(w): compact, and the default
Indents == {0, DefaultIndent}

-----------------------------------------------------------------------------
(* The character source exploring every input over a small alphabet *)

Structural == {chr.lbrace, chr.rbrace, chr.lbracket, chr.rbracket, chr.comma,
               chr.colon, chr.quote, chr.a}
Numeric == {chr.lbracket, chr.rbracket, chr.zero, chr.one, chr.five, chr.dot,
            chr.e, chr.minus}
Textual == {chr.lbracket, chr.rbracket, chr.quote, chr.backslash, chr.n,
            chr.nl, chr.u, chr.l}

Member == {chr.lbrace, chr.rbrace, chr.quote, chr.colon, chr.comma,
           chr.zero, chr.one, chr.minus}

Alphabets == {Structural, Numeric, Textual, Member}

\* the characters whose feed returned, in order
Consumed == [i \in 1..Len(SelectSeq(fed, LAMBDA x : x.ok)) |->
                 SelectSeq(fed, LAMBDA x : x.ok)[i].c]

\* number of feeds that raised
Failures == Len(SelectSeq(fed, LAMBDA x : ~x.ok))

\* no feed has raised so far
ErrorFree == \A i \in 1..Len(fed) : fed[i].ok

\* number of feeds made since the first one that raised
RECURSIVE SinceFailure(_)
SinceFailure(f) ==
    IF f = <<>> THEN 0
    ELSE IF ~Head(f).ok THEN Len(f) - 1
    ELSE SinceFailure(Tail(f))

\* reader(input) on the reader of main.cpp
Fed(R, input) ==
    /\ Becomes(R)
    /\ fed' = Append(fed, [c |-> input, ok |-> ~Raised(R)])

Step(input) == Fed(feed(Machine, input), input)

Init ==
    /\ Constructed
    /\ m_indent = DefaultIndent
    /\ pending = <<>>
    /\ alphabet \in Alphabets

Feed ==
    /\ Len(fed) < MaxInput
    /\ SinceFailure(fed) < MaxRetry
    /\ \E input \in alphabet : Step(input)
    /\ UNCHANGED <<pending, alphabet>>

Next == Feed

Spec == Init /\ [][Next]_vars

-----------------------------------------------------------------------------
(* The character source reading a document, as main.cpp reads sample.json *)

Scalars == {<<chr.one, chr.zero>>,
            <<chr.minus, chr.zero, chr.dot, chr.five, chr.e, chr.one>>,
            <<chr.quote, chr.backslash, chr.quote, chr.backslash, chr.u,
              chr.zero, chr.zero, chr.e, chr.nine, chr.nl, chr.slash,
              chr.quote>>}

\* the key of the i-th member of an object: "a", "b", ...
KeyText(i) == <<chr.quote, chr.a + (i - 1), chr.quote>>

RECURSIVE ArrayBody(_)
ArrayBody(l) ==
    IF l = <<>> THEN <<>>
    ELSE IF Len(l) = 1 THEN l[1]
    ELSE (l[1] \o <<chr.comma>>) \o ArrayBody(Tail(l))

RECURSIVE ObjectBody(_, _)
ObjectBody(l, i) ==
    IF l = <<>> THEN <<>>
    ELSE LET member == (KeyText(i) \o <<chr.colon>>) \o l[1]
         IN IF Len(l) = 1 THEN member
            ELSE (member \o <<chr.comma>>) \o ObjectBody(Tail(l), i + 1)

ArrayText(l) == (<<chr.lbracket>> \o ArrayBody(l)) \o <<chr.rbracket>>

ObjectText(l) == (<<chr.lbrace>> \o ObjectBody(l, 1)) \o <<chr.rbrace>>

\* ValuesN(n): the JSON values made of exactly n values (itself included);
\* ListsN(k): the lists of values made of k values in all
RECURSIVE ValuesN(_), ListsN(_)
ValuesN(n) ==
    (IF n = 1 THEN Scalars ELSE {})
        \cup {ArrayText(l) : l \in ListsN(n - 1)}
        \cup {ObjectText(l) : l \in ListsN(n - 1)}

ListsN(k) ==
    IF k = 0 THEN {<<>>}
    ELSE UNION {{<<v>> \o l : v \in ValuesN(j), l \in ListsN(k - j)} : j \in 1..k}

\* the well-formed documents: an object or an array of at most MaxNodes values
Documents == UNION {ValuesN(n) \ Scalars : n \in 1..MaxNodes}

\* {"x":1,"y":[true,null]}
Sample == <<chr.lbrace, chr.quote, chr.x, chr.quote, chr.colon, chr.one,
            chr.comma, chr.quote, chr.y, chr.quote, chr.colon, chr.lbracket,
            chr.t, chr.r, chr.u, chr.e, chr.comma, chr.n, chr.u, chr.l, chr.l,
            chr.rbracket, chr.rbrace>>

\* the same document spread over lines, with false and an exponent in it
Spread == <<chr.space, chr.lbrace, chr.nl, chr.tab, chr.quote, chr.x,
            chr.quote, chr.space, chr.colon, chr.space, chr.one, chr.E,
            chr.plus, chr.two, chr.space, chr.comma, chr.cr, chr.nl,
            chr.quote, chr.y, chr.quote, chr.colon, chr.lbracket, chr.f,
            chr.a, chr.l, chr.s, chr.e, chr.nl, chr.comma, chr.minus,
            chr.one, chr.two, chr.rbracket, chr.nl, chr.rbrace, chr.nl>>

\* ["\\\/\b\f\n\r\t\"\u0041\u00e9\uFEFF"]: every escape, and \u escapes of
\* one, two and three bytes
Escaped == <<chr.lbracket, chr.quote,
             chr.backslash, chr.backslash, chr.backslash, chr.slash,
             chr.backslash, chr.b, chr.backslash, chr.f,
             chr.backslash, chr.n, chr.backslash, chr.r,
             chr.backslash, chr.t, chr.backslash, chr.quote,
             chr.backslash, chr.u, chr.zero, chr.zero, chr.four, chr.one,
             chr.backslash, chr.u, chr.zero, chr.zero, chr.e, chr.nine,
             chr.backslash, chr.u, chr.F, chr.E, chr.F, chr.F,
             chr.quote, chr.rbracket>>

InitDoc ==
    /\ Constructed
    /\ m_indent \in Indents
    /\ pending \in Documents \cup {Sample, Spread, Escaped}
    /\ alphabet = {}

\* main.cpp: the next character of the file goes to the reader; an exception
\* ends the run
FeedNext ==
    /\ pending # <<>>
    /\ exc = NoExc
    /\ Step(Head(pending))
    /\ pending' = Tail(pending)
    /\ UNCHANGED alphabet

NextDoc == FeedNext

SpecDoc == InitDoc /\ [][NextDoc]_vars

-----------------------------------------------------------------------------
(* A caller handing a document to read in consecutive chunks *)

InitRead ==
    /\ Constructed
    /\ m_indent = DefaultIndent
    /\ pending \in {Sample, Spread, Escaped}
    /\ alphabet = {}

\* reader.read(first, last) over the next k characters of the document
Read ==
    /\ pending # <<>>
    /\ Len(fed) < MaxReads
    /\ \E k \in 1..Len(pending) :
          /\ Fed(read(Machine, SubSeq(pending, 1, k)), SubSeq(pending, 1, k))
          /\ pending' = SubSeq(pending, k + 1, Len(pending))
    /\ UNCHANGED alphabet

NextRead == Read

SpecRead == InitRead /\ [][NextRead]_vars

-----------------------------------------------------------------------------
(* A caller writing Items of its own to a writer *)

Payloads(it) ==
    CASE it = "key" -> {<<chr.a>>}
      [] it = "string_value" -> {<<>>, <<chr.quote, chr.nl>>}
      [] it = "integer_value" -> {<<chr.minus, chr.one>>}
      [] it = "real_value" -> {<<chr.zero, chr.dot, chr.five>>}
      [] OTHER -> {<<>>}

InitWriter ==
    /\ Constructed
    /\ m_indent \in Indents
    /\ pending = <<>>
    /\ alphabet = {}

\* the caller passes (it, data) to write
passed(M, it, data) ==
    [M EXCEPT !.items = Append(@, [item |-> it, data |-> data,
                                   row |-> 0, column |-> 0])]

\* writer.write(it, data, output)
Write ==
    /\ Len(items) < MaxItems
    /\ \E it \in item : \E data \in Payloads(it) :
          Becomes(returned(write(passed(Machine, it, data), it, data), it))
    /\ UNCHANGED <<fed, pending, alphabet>>

NextWriter == Write

SpecWriter == InitWriter /\ [][NextWriter]_vars

-----------------------------------------------------------------------------
(* A caller writing one string in an array, and a reader reading it back *)

\* the characters encode escapes
Escapable == {chr.quote, chr.backslash, chr.slash, chr.bs, chr.ff, chr.nl,
              chr.cr, chr.tab}

\* payload characters: those, and two letters that name escapes
TextBytes == Escapable \cup {chr.a, chr.u}

Texts == UNION {[1..n -> TextBytes] : n \in 0..MaxText}

InitText ==
    /\ Constructed
    /\ m_indent \in Indents
    /\ pending = <<>>
    /\ alphabet = TextBytes

\* the caller's calls in order: ArrayBegin, a StringValue, ArrayEnd
Script(n) ==
    CASE n = 0 -> {<<"array_begin", <<>>>>}
      [] n = 1 -> {<<"string_value", data>> : data \in Texts}
      [] n = 2 -> {<<"array_end", <<>>>>}
      [] OTHER -> {}

\* writer.write(it, data, output); the text written so far is what the reader
\* will be given
WriteText ==
    /\ \E w \in Script(Len(written)) :
          Becomes(returned(write(passed(Machine, w[1], w[2]), w[1], w[2]),
                           w[1]))
    /\ pending' = output'
    /\ UNCHANGED <<fed, alphabet>>

\* a reader whose callback only collects is given the next character written
ReadBack ==
    /\ Len(written) = 3
    /\ pending # <<>>
    /\ exc = NoExc
    /\ Fed(feed([Machine EXCEPT !.sink = "collect"], Head(pending)),
           Head(pending))
    /\ pending' = Tail(pending)
    /\ UNCHANGED alphabet

NextText == WriteText \/ ReadBack

SpecText == InitText /\ [][NextText]_vars

-----------------------------------------------------------------------------
(* The character source reading a string with one \u escape of any digits *)

HexDigits == ((chr.zero..chr.nine) \cup (chr.a..chr.f)) \cup (chr.A..chr.F)

\* ["\uxxxx"], each x standing for a character drawn from the alphabet
EscapeText == <<chr.lbracket, chr.quote, chr.backslash, chr.u,
                chr.x, chr.x, chr.x, chr.x, chr.quote, chr.rbracket>>

InitUnicode ==
    /\ Constructed
    /\ m_indent = DefaultIndent
    /\ pending = EscapeText
    /\ alphabet = HexDigits \cup {chr.x}

\* the next character of the text goes to the reader
FeedText ==
    /\ pending # <<>>
    /\ exc = NoExc
    /\ Head(pending) # chr.x
    /\ Step(Head(pending))
    /\ pending' = Tail(pending)
    /\ UNCHANGED alphabet

\* a hexadecimal digit, or a character that is none, goes to the reader
FeedDigit ==
    /\ pending # <<>>
    /\ exc = NoExc
    /\ Head(pending) = chr.x
    /\ \E input \in alphabet : Step(input)
    /\ pending' = Tail(pending)
    /\ UNCHANGED alphabet

NextUnicode == FeedText \/ FeedDigit

SpecUnicode == InitUnicode /\ [][NextUnicode]_vars

-----------------------------------------------------------------------------
(* Properties *)

\* kinds and payloads of a sequence of delivered Items, positions left out
Kinds(its) == [i \in 1..Len(its) |-> <<its[i].item, its[i].data>>]

Has(seq, c) == \E i \in 1..Len(seq) : seq[i] = c

Count(seq, c) == Cardinality({i \in 1..Len(seq) : seq[i] = c})

\* C1: a well-formed document D fed character by character, with every Item
\* written by a writer of indent width 0 or 2, raises no error, and the text
\* written, fed to a new reader, delivers the same Item kinds and payloads in
\* the same order as D did.
RoundTrip ==
    /\ exc = NoExc
    /\ pending = <<>> =>
          LET again == feed_all(Collector, output)
          IN /\ ~Raised(again)
             /\ again.m_token_state = <<>>
             /\ Kinds(again.items) = Kinds(items)

RoundTripWitness ==
    /\ pending = <<>>
    /\ m_indent = 2
    /\ m_token_state = <<>>
    /\ Len(items) >= 6
    /\ \E i \in 1..Len(items) : items[i].item = "key"
    /\ \E i \in 1..Len(items) :
          items[i].item = "string_value" /\ Has(items[i].data, chr.quote)
    /\ \E i \in 1..Len(items) : items[i].item = "real_value"

\* {"x": 1,"y": [true,null]}
SampleCompact ==
    <<chr.lbrace, chr.quote, chr.x, chr.quote, chr.colon, chr.space, chr.one,
      chr.comma, chr.quote, chr.y, chr.quote, chr.colon, chr.space,
      chr.lbracket, chr.t, chr.r, chr.u, chr.e, chr.comma, chr.n, chr.u,
      chr.l, chr.l, chr.rbracket, chr.rbrace>>

SampleFed == pending = <<>> /\ Consumed = Sample /\ m_indent = 0

\* C2 as stated: the sample document, read and written with indent width 0,
\* comes out character for character as it went in, with nothing between a
\* key's colon and its value.
SampleCompactUnchanged == SampleFed => output = Sample

\* C2 as amended: the sample document, read and written with indent width 0,
\* comes out as {"x": 1,"y": [true,null]}: one space follows each key's
\* colon, and nothing else is added.
SampleCompactOutput == SampleFed => output = SampleCompact

SampleCompactWitness == SampleFed /\ exc = NoExc /\ Len(items) = 9

\* C3: with indent width 0 the writer puts out no newline, and no space other
\* than exactly one right after the colon that follows each key (payloads here
\* hold neither a space nor a colon, so every one in the output is the
\* writer's own).
CompactWhitespace ==
    m_indent = 0 =>
        /\ ~Has(output, chr.nl)
        /\ \A i \in 1..Len(output) :
              output[i] = chr.space => i > 1 /\ output[i - 1] = chr.colon
        /\ \A i \in 1..Len(output) :
              output[i] = chr.colon =>
                  /\ i > 1 /\ output[i - 1] = chr.quote
                  /\ i < Len(output) /\ output[i + 1] = chr.space
        /\ Count(output, chr.space) = Count(written, "key")
        /\ Count(output, chr.colon) = Count(written, "key")

CompactWhitespaceWitness ==
    /\ m_indent = 0
    /\ Count(written, "key") = 2
    /\ Has(written, "string_value")
    /\ Has(output, chr.comma)

\* The outcome T of one token: the reader refused it, or both stacks moved.
Agrees(T) ==
    IF Raised(T) THEN T.exc.thrower = "basic_reader"
    ELSE Len(T.m_state) = Len(T.m_token_state)

\* C4: as long as no feed has raised, every Item the reader delivered was
\* accepted by the writer and the two context stacks have the same depth,
\* after each feed and after each single token the reader may handle next;
\* the first exception of a run is never the writer's.
SameGrammar ==
    /\ ErrorFree =>
          /\ Len(m_state) = Len(m_token_state)
          /\ written = [i \in 1..Len(items) |-> items[i].item]
          /\ \A t \in tokens : Agrees(token(Machine, t))
    /\ (exc # NoExc /\ Failures = 1) => exc.thrower = "basic_reader"

SameGrammarWitness ==
    /\ ErrorFree
    /\ Len(m_token_state) = 2
    /\ Len(m_state) = 2
    /\ Len(items) = 5
    /\ items[5].item = "array_end"

\* the characters passed to operator() so far, whatever their outcome
FedChars == [i \in 1..Len(fed) |-> fed[i].c]

TopLevelWhat == "\"{\" or \"[\" expected"

\* in the reader's current lexer state, this character completes a token
\* that is no Begin
CompletesOther(input) ==
    \/ /\ m_char_state = "default_state"
       /\ input \in {chr.rbrace, chr.rbracket, chr.colon, chr.comma}
    \/ m_char_state = "string_state" /\ input = chr.quote
    \/ /\ m_char_state = "integer_n_state"
       /\ input \notin (chr.zero..chr.nine) \cup {chr.dot, chr.e, chr.E}
    \/ /\ m_char_state = "integer_z_state"
       /\ input \notin {chr.dot, chr.e, chr.E}
    \/ /\ m_char_state = "fractional_n_state"
       /\ input \notin (chr.zero..chr.nine) \cup {chr.e, chr.E}
    \/ /\ m_char_state = "exponent_n_state"
       /\ input \notin chr.zero..chr.nine
    \/ m_char_state = "null_3_state" /\ input = chr.l
    \/ m_char_state = "true_3_state" /\ input = chr.e
    \/ m_char_state = "false_4_state" /\ input = chr.e

TopLevelStep ==
    LET input == fed'[Len(fed')].c
    IN m_token_state = <<>> =>
          /\ CompletesOther(input) =>
                /\ exc' = exception(TopLevelWhat, m_row, m_column, "basic_reader")
                /\ items' = items
                /\ m_token_state' = <<>>
          /\ (m_char_state = "default_state" /\ input = chr.lbrace) =>
                /\ exc' = NoExc
                /\ Kinds(items') = Append(Kinds(items), <<"object_begin", <<>>>>)
                /\ Len(m_token_state') = 1
          /\ (m_char_state = "default_state" /\ input = chr.lbracket) =>
                /\ exc' = NoExc
                /\ Kinds(items') = Append(Kinds(items), <<"array_begin", <<>>>>)
                /\ Len(m_token_state') = 1
          /\ (m_char_state = "default_state" /\ isspace(input)) =>
                /\ exc' = NoExc
                /\ items' = items
                /\ m_token_state' = <<>>
                /\ m_char_state' = "default_state"
          /\ exc' # NoExc => items' = items /\ m_token_state' = <<>>

\* C5: while the reader's context stack is empty, a character that completes
\* any token other than ObjectBegin or ArrayBegin (a closing bracket, colon,
\* comma, string, number or null/true/false) raises the top-level grammar
\* error at the current position and delivers no Item; '{' and '[' deliver
\* their Begin and open a context; whitespace is skipped without error.
TopLevelRule == [][TopLevelStep]_vars

TopLevelRuleWitness ==
    /\ exc.what = TopLevelWhat
    /\ m_char_state = "null_3_state"
    /\ m_row = 2
    /\ items = <<>>

\* number of characters after the last newline of a sequence
SinceNewline(seq) ==
    Len(seq) - (IF Has(seq, chr.nl)
                THEN CHOOSE i \in 1..Len(seq) :
                         /\ seq[i] = chr.nl
                         /\ \A j \in (i + 1)..Len(seq) : seq[j] # chr.nl
                ELSE 0)

\* {"a":}
BadValue == <<chr.lbrace, chr.quote, chr.a, chr.quote, chr.colon, chr.rbrace>>

\* C6: an exception thrown by the reader carries the 1-based row and column of
\* the character whose feed raised it: row = 1 + newlines consumed before it,
\* column = 1 + characters consumed since the last newline; feeding {"a":}
\* raises "value expected" at row 1, column 6.
ErrorPosition ==
    /\ exc.thrower = "basic_reader" =>
          /\ exc.row = 1 + Count(Consumed, chr.nl)
          /\ exc.column = 1 + SinceNewline(Consumed)
    /\ FedChars = BadValue =>
          exc = exception("value expected", 1, 6, "basic_reader")

ErrorPositionWitness ==
    /\ FedChars = BadValue
    /\ exc.what = "value expected"
    /\ Kinds(items) = <<<<"object_begin", <<>>>>, <<"key", <<chr.a>>>>>>

PositionStep ==
    LET last == fed'[Len(fed')]
    IN /\ m_row' >= m_row
       /\ last.ok =>
             IF last.c = chr.nl
             THEN m_row' = m_row + 1 /\ m_column' = 1
             ELSE m_row' = m_row /\ m_column' = m_column + 1

\* C7: the position starts at (1, 1); a newline that is fed successfully adds
\* one to the row and sets the column to 1, any other character fed
\* successfully leaves the row and adds one to the column, whatever the lexer
\* state; the row never decreases.
PositionTracking == (m_row = 1 /\ m_column = 1) /\ [][PositionStep]_vars

PositionTrackingWitness ==
    /\ ErrorFree
    /\ m_char_state = "string_state"
    /\ m_row = 3
    /\ m_column = 2
    /\ Has(m_data, chr.nl)

Begins == {"object_begin", "array_begin"}

Ends == {"object_end", "array_end"}

\* the Begins of a sequence of Items that no later End has closed, innermost
\* last; an End that does not close the innermost Begin of its kind gives
\* <<"unmatched">>
RECURSIVE Unclosed(_, _)
Unclosed(its, open) ==
    IF its = <<>> THEN open
    ELSE LET k == Head(its).item
         IN CASE k \in Begins -> Unclosed(Tail(its), Append(open, k))
              [] k = "object_end" ->
                   IF open # <<>> /\ Top(open) = "object_begin"
                   THEN Unclosed(Tail(its), SubSeq(open, 1, Len(open) - 1))
                   ELSE <<"unmatched">>
              [] k = "array_end" ->
                   IF open # <<>> /\ Top(open) = "array_begin"
                   THEN Unclosed(Tail(its), SubSeq(open, 1, Len(open) - 1))
                   ELSE <<"unmatched">>
              [] OTHER -> Unclosed(Tail(its), open)

\* the Begin that pushed a reader context
BeginOf(state) ==
    IF state \in {"array_1_state", "array_v_state", "array_n_state"}
    THEN "array_begin" ELSE "object_begin"

BetweenTokens ==
    m_char_state \in {"default_state", "integer_n_state", "integer_z_state",
                      "fractional_n_state", "exponent_n_state"}

\* C8: while no feed has raised, the depth of the reader's stack is the
\* number of Begins delivered minus the number of Ends delivered, the stack
\* holds exactly the Begins not yet closed (so every End closed the innermost
\* Begin of its own kind, and the stack is empty once the first Begin is
\* closed), and the closing bracket of the other kind raises an error and
\* delivers no End.
StackBalance ==
    ErrorFree =>
        /\ Len(m_token_state) =
               Cardinality({i \in 1..Len(items) : items[i].item \in Begins})
               - Cardinality({i \in 1..Len(items) : items[i].item \in Ends})
        /\ Unclosed(items, <<>>) =
               [i \in 1..Len(m_token_state) |-> BeginOf(m_token_state[i])]
        /\ (m_token_state # <<>> /\ BetweenTokens) =>
               LET other == IF BeginOf(Top(m_token_state)) = "object_begin"
                            THEN chr.rbracket ELSE chr.rbrace
                   F == feed(Machine, other)
               IN /\ Raised(F)
                  /\ F.m_token_state # <<>>
                  /\ \A i \in 1..Len(F.items) : i > Len(items) =>
                         F.items[i].item \notin Ends

StackBalanceWitness ==
    /\ ErrorFree
    /\ m_token_state = <<>>
    /\ Len(items) = 4
    /\ items[2].item = "object_begin"
    /\ items[3].item = "object_end"
    /\ items[4].item = "array_end"

\* where the caller stands in the document written so far: the innermost
\* open container and what was last written in it, from the accepted Items
RECURSIVE Contexts(_, _)
Contexts(its, open) ==
    IF its = <<>> THEN open
    ELSE LET k == Head(its)
             valued == IF open # <<>> /\ Top(open) = "after key"
                       THEN [open EXCEPT ![Len(open)] = "object after value"]
                       ELSE open
         IN CASE k = "object_begin" ->
                   Contexts(Tail(its), Append(valued, "object before first key"))
              [] k = "array_begin" ->
                   Contexts(Tail(its), Append(valued, "array"))
              [] k \in Ends ->
                   Contexts(Tail(its), SubSeq(open, 1, Len(open) - 1))
              [] k = "key" ->
                   Contexts(Tail(its), [open EXCEPT ![Len(open)] = "after key"])
              [] OTHER -> Contexts(Tail(its), valued)

Context ==
    LET open == Contexts(written, <<>>)
    IN IF open = <<>> THEN "empty stack" ELSE Top(open)

Legal(context) ==
    CASE context = "empty stack" -> Begins
      [] context = "object before first key" -> {"object_end", "key"}
      [] context = "after key" -> scalar_item \cup Begins
      [] context = "object after value" -> {"object_end", "key"}
      [] context = "array" -> ({"array_end"} \cup scalar_item) \cup Begins

\* C9: write raises a json::exception exactly when the Item is not legal where
\* the writer stands: only a Begin on the empty stack; ObjectEnd or Key in
\* an object before its first key and after a value; a scalar or a Begin right
\* after a Key; ArrayEnd, a scalar or a Begin in an array.
WriterLegality ==
    /\ Len(m_state) = Len(Contexts(written, <<>>))
    /\ \A it \in item : \A data \in Payloads(it) :
          LET W == write(Machine, it, data)
          IN /\ Raised(W) <=> it \notin Legal(Context)
             /\ Raised(W) => /\ W.exc.thrower = "basic_writer"
                             /\ W.exc.what # "std::bad_exception"

WriterLegalityWitness ==
    /\ Context = "after key"
    /\ Len(m_state) = 2
    /\ exc.what = "value expected"
    /\ items[Len(items)].item = "array_end"

IntegerText(d) ==
    LET digits == IF d # <<>> /\ d[1] = chr.minus THEN Tail(d) ELSE d
    IN /\ digits # <<>>
       /\ \A i \in 1..Len(digits) : digits[i] \in chr.zero..chr.nine
       /\ digits[1] = chr.zero => Len(digits) = 1

FractionText(d) ==
    /\ Len(d) >= 2
    /\ d[1] = chr.dot
    /\ \A i \in 2..Len(d) : d[i] \in chr.zero..chr.nine

ExponentText(d) ==
    /\ Len(d) >= 2
    /\ d[1] \in {chr.e, chr.E}
    /\ LET digits == IF d[2] \in {chr.minus, chr.plus}
                     THEN SubSeq(d, 3, Len(d)) ELSE Tail(d)
       IN /\ digits # <<>>
          /\ \A i \in 1..Len(digits) : digits[i] \in chr.zero..chr.nine

RealText(d) ==
    \E i \in 1..Len(d) : \E j \in i..Len(d) :
        /\ j > i \/ j < Len(d)
        /\ i < Len(d)
        /\ IntegerText(SubSeq(d, 1, i))
        /\ j > i => FractionText(SubSeq(d, i + 1, j))
        /\ j < Len(d) => ExponentText(SubSeq(d, j + 1, Len(d)))

\* C10: every IntegerValue payload is an optional '-' and either a single '0'
\* or a non-zero digit with further digits; every RealValue payload is such
\* an integer part with a fraction and/or an exponent after it; [01] raises an
\* error and no number Item ever carries "01"; [0] delivers one IntegerValue "0" and
\* [0.5] one RealValue "0.5".
NumberForm ==
    /\ \A i \in 1..Len(items) :
          /\ items[i].item = "integer_value" => IntegerText(items[i].data)
          /\ items[i].item = "real_value" => RealText(items[i].data)
          /\ items[i].item \in {"integer_value", "real_value"} =>
                items[i].data # <<chr.zero, chr.one>>
    /\ FedChars = <<chr.lbracket, chr.zero, chr.one, chr.rbracket>> =>
          /\ exc # NoExc
          /\ Kinds(items) = <<<<"array_begin", <<>>>>,
                              <<"integer_value", <<chr.zero>>>>>>
    /\ FedChars = <<chr.lbracket, chr.zero, chr.rbracket>> =>
          /\ exc = NoExc
          /\ Kinds(items) = <<<<"array_begin", <<>>>>,
                              <<"integer_value", <<chr.zero>>>>,
                              <<"array_end", <<>>>>>>
    /\ FedChars = <<chr.lbracket, chr.zero, chr.dot, chr.five, chr.rbracket>> =>
          /\ exc = NoExc
          /\ Kinds(items) = <<<<"array_begin", <<>>>>,
                              <<"real_value", <<chr.zero, chr.dot, chr.five>>>>,
                              <<"array_end", <<>>>>>>

NumberFormWitness ==
    /\ FedChars = <<chr.lbracket, chr.zero, chr.one, chr.rbracket>>
    /\ exc.what = "\"]\" or \",\" expected"
    /\ m_data = <<chr.one>>

\* the reader and the writer of main.cpp as constructed, before any call
Fresh == [Collector EXCEPT !.sink = "write", !.m_indent = m_indent]

\* the characters of the calls made so far on a range, concatenated
RECURSIVE Flat(_)
Flat(calls) ==
    IF calls = <<>> THEN <<>> ELSE Head(calls).c \o Flat(Tail(calls))

\* the reader's members are those of R
SameReader(R) ==
    /\ m_char_state = R.m_char_state
    /\ m_token_state = R.m_token_state
    /\ m_data = R.m_data
    /\ m_row = R.m_row
    /\ m_column = R.m_column
    /\ m_unicode = R.m_unicode

\* C11: after any number of read calls over consecutive chunks of a document,
\* the Items delivered and the reader's lexer state, context stack, literal
\* buffer, row and column are those of one reader fed the concatenated
\* characters one by one.
ReadAsFeed ==
    /\ exc = NoExc
    /\ SameReader(feed_all(Fresh, Flat(fed)))
    /\ Kinds(items) = Kinds(feed_all(Fresh, Flat(fed)).items)

\* once some feed has raised, this feed raises too and delivers no Item
StaysFailed == ~ErrorFree => (exc' # NoExc /\ items' = items)

\* C12: once a feed on a reader has raised an error, every later feed on the
\* same reader raises an error and no further Item is delivered.
Unrecoverable == [][StaysFailed]_vars

\* a collecting reader inside a string: [" has been fed
InString == feed_all(Collector, <<chr.lbracket, chr.quote>>)

\* encode turns c into a backslash and one more character, which the reader's
\* escape state turns back into c
EscapePair(c) ==
    /\ Len(encode(c)) = 2
    /\ encode(c)[1] = chr.backslash
    /\ feed_all(InString, encode(c)).m_data = <<c>>
    /\ feed_all(InString, encode(c)).m_char_state = "string_state"
    /\ feed_all(InString, encode(c)).exc = NoExc

\* C13: each of " \ / backspace formfeed newline carriage-return tab is
\* written as a two-character backslash escape that the reader's escape state
\* decodes to the same character; and the quoted text the writer produces for
\* a payload s, fed to a reader, raises nothing and comes back as one string
\* Item with payload s.
EscapeSymmetry ==
    /\ \A c \in Escapable : EscapePair(c)
    /\ exc = NoExc
    /\ Len(items) <= 2 * Len(written)
    /\ (Len(written) = 3 /\ pending = <<>>) =>
          /\ m_char_state = "default_state"
          /\ Len(items) = 6
          /\ items[5].item = "string_value"
          /\ Kinds(SubSeq(items, 4, 6)) = Kinds(SubSeq(items, 1, 3))

EscapeSymmetryWitness ==
    /\ Len(written) = 3
    /\ pending = <<>>
    /\ Len(items) = 6
    /\ items[2].data = <<chr.quote, chr.backslash, chr.nl>>
    /\ items[5].data = <<chr.quote, chr.backslash, chr.nl>>
    /\ Count(output, chr.backslash) = 4

Quoted(data) == (<<chr.quote>> \o for_each_encode(data)) \o <<chr.quote>>

\* the text of one Item, line breaks and commas apart
ItemText(i) ==
    CASE i.item = "object_begin"  -> <<chr.lbrace>>
      [] i.item = "object_end"    -> <<chr.rbrace>>
      [] i.item = "array_begin"   -> <<chr.lbracket>>
      [] i.item = "array_end"     -> <<chr.rbracket>>
      [] i.item = "key"           -> Quoted(i.data) \o <<chr.colon, chr.space>>
      [] i.item = "string_value"  -> Quoted(i.data)
      [] i.item = "null_value"    -> <<chr.n, chr.u, chr.l, chr.l>>
      [] i.item = "true_value"    -> <<chr.t, chr.r, chr.u, chr.e>>
      [] i.item = "false_value"   -> <<chr.f, chr.a, chr.l, chr.s, chr.e>>
      [] OTHER                    -> i.data

\* a newline and depth * w spaces
Break(depth, w) == <<chr.nl>> \o [i \in 1..(depth * w) |-> chr.space]

\* the layout of a well-formed Item sequence with indent width w: open holds,
\* for every container open, whether it is still empty; a line break comes
\* before every Key, before every array element and before the End of a
\* container that is not empty, at the depth of the containers then open (an
\* End at the depth left once it has closed), and nowhere else
RECURSIVE Pretty(_, _, _, _)
Pretty(its, open, afterKey, w) ==
    IF its = <<>> THEN <<>>
    ELSE LET k == Head(its).item
             depth == Len(open)
             nonempty == open # <<>> /\ ~Top(open)
             separator == IF k \notin Ends /\ ~afterKey /\ nonempty
                      THEN <<chr.comma>> ELSE <<>>
             break == CASE k = "key" -> Break(depth, w)
                        [] k \in Ends ->
                             IF nonempty THEN Break(depth - 1, w) ELSE <<>>
                        [] OTHER ->
                             IF open # <<>> /\ ~afterKey
                             THEN Break(depth, w) ELSE <<>>
             filled == IF open = <<>> THEN open
                       ELSE [open EXCEPT ![depth] = FALSE]
             after == CASE k \in Begins -> Append(filled, TRUE)
                        [] k \in Ends -> SubSeq(open, 1, depth - 1)
                        [] OTHER -> filled
         IN ((separator \o break) \o ItemText(Head(its)))
                \o Pretty(Tail(its), after, k = "key", w)

\* the sample document laid out with indent width 2
SamplePretty ==
    <<chr.lbrace, chr.nl,
      chr.space, chr.space, chr.quote, chr.x, chr.quote, chr.colon, chr.space,
      chr.one, chr.comma, chr.nl,
      chr.space, chr.space, chr.quote, chr.y, chr.quote, chr.colon, chr.space,
      chr.lbracket, chr.nl,
      chr.space, chr.space, chr.space, chr.space, chr.t, chr.r, chr.u, chr.e,
      chr.comma, chr.nl,
      chr.space, chr.space, chr.space, chr.space, chr.n, chr.u, chr.l, chr.l,
      chr.nl,
      chr.space, chr.space, chr.rbracket, chr.nl,
      chr.rbrace>>

\* C14: with a nonzero indent width w the writer puts a newline and depth * w
\* spaces before every Key, before every array element and before the End of
\* every non-empty container (depth counting the containers open, for an End
\* those left open), and no newline before the top-level Begin, between a
\* key's colon and its value, or inside an empty container; the sample
\* document with w = 2 has its keys at 2 spaces, the array elements at 4, the
\* closing ] at 2 and the closing } at 0.
PrettyPrint ==
    /\ Len(m_state) = Len(Unclosed(items, <<>>))
    /\ \A w \in 1..3 :
          endl([Machine EXCEPT !.m_indent = w]).output
              = output \o Break(Len(Unclosed(items, <<>>)), w)
    /\ m_indent # 0 => output = Pretty(items, <<>>, FALSE, m_indent)
    /\ (m_indent = 2 /\ pending = <<>> /\ Consumed = Sample) =>
          output = SamplePretty

PrettyPrintWitness ==
    /\ m_indent = 2
    /\ pending = <<>>
    /\ Consumed = Sample
    /\ Count(output, chr.nl) = 6
    /\ Len(m_state) = 0

\* the Items whose payload is the text of their token
Texted == {"key", "string_value", "integer_value", "real_value"}

\* the Items this step delivered
Delivered == SubSeq(items', Len(items) + 1, Len(items'))

\* a feed that returned, in a run where none has raised: an Item with text
\* carries the buffer as the feed found it and is the first Item of the feed;
\* any other Item carries nothing; a feed that delivered leaves the buffer
\* empty, or holding this character as the start of the next token; a feed
\* that delivered nothing only adds to the buffer
BufferStep ==
    (ErrorFree /\ Len(fed') = Len(fed) + 1 /\ fed'[Len(fed')].ok) =>
        /\ \A j \in 1..Len(Delivered) :
              IF Delivered[j].item \in Texted
              THEN j = 1 /\ Delivered[j].data = m_data
              ELSE Delivered[j].data = <<>>
        /\ Delivered # <<>> =>
              m_data' \in {<<>>, <<fed'[Len(fed')].c>>}
        /\ Delivered = <<>> =>
              /\ Len(m_data') >= Len(m_data)
              /\ SubSeq(m_data', 1, Len(m_data)) = m_data

\* in a run where no feed has raised, the buffer is empty in the Default state
\* and only Items with text carry any
BufferState ==
    ErrorFree =>
        /\ m_char_state = "default_state" => m_data = <<>>
        /\ \A i \in 1..Len(items) :
              items[i].item \notin Texted => items[i].data = <<>>

\* C15: in every error-free run the literal buffer is empty whenever the
\* lexer is in the Default state; the payload of a Key, StringValue,
\* IntegerValue or RealValue is the text accumulated for that one token, the
\* buffer being emptied when an Item is delivered; the payload of a Begin, an
\* End, null, true or false is empty.
LiteralBuffer == []BufferState /\ [][BufferStep]_vars

LiteralBufferWitness ==
    /\ ErrorFree
    /\ m_char_state = "default_state"
    /\ m_data = <<>>
    /\ Len(items) = 3
    /\ items[2].item = "string_value"
    /\ items[2].data = <<chr.nl, chr.n>>

\* the tokens that are a value or begin one
Values == {"object_begin_token", "array_begin_token", "string_token",
           "integer_token", "real_token", "null_token", "true_token",
           "false_token"}

\* the tokens the reader takes without raising, where it stands
Accepted == {t \in tokens : ~Raised(token(Machine, t))}

\* the last character consumed was c and completed a token
JustAfter(c) ==
    /\ ErrorFree
    /\ m_char_state = "default_state"
    /\ Consumed # <<>>
    /\ Consumed[Len(Consumed)] = c

\* the innermost container open, by the Items delivered
Innermost == Top(Unclosed(items, <<>>))

\* this closing bracket, fed now, raises a reader error at the current
\* position and delivers nothing
Refused(bracket) ==
    /\ Raised(feed(Machine, bracket))
    /\ feed(Machine, bracket).exc.thrower = "basic_reader"
    /\ feed(Machine, bracket).exc.row = m_row
    /\ feed(Machine, bracket).exc.column = m_column
    /\ feed(Machine, bracket).items = items

TrailingObject == <<chr.lbrace, chr.quote, chr.a, chr.quote, chr.colon,
                    chr.one, chr.comma, chr.rbrace>>

TrailingArray == <<chr.lbracket, chr.one, chr.comma, chr.rbracket>>

\* C16: after a comma the reader accepts strictly fewer tokens than after a
\* Begin: in an object only a string (the next key), where after { it is a
\* string or }; in an array only a value, where after [ it is a value or ];
\* so {"a":1,} and [1,] raise a grammar error at the closing bracket, and {}
\* and [] are accepted.
TrailingComma ==
    /\ JustAfter(chr.comma) =>
          /\ Unclosed(items, <<>>) # <<>>
          /\ IF Innermost = "object_begin"
             THEN Accepted = {"string_token"} /\ Refused(chr.rbrace)
             ELSE Accepted = Values /\ Refused(chr.rbracket)
    /\ JustAfter(chr.lbrace) =>
          Accepted = {"string_token", "object_end_token"}
    /\ JustAfter(chr.lbracket) =>
          Accepted = Values \cup {"array_end_token"}
    /\ fed = <<>> =>
          /\ feed_all(Machine, TrailingObject).exc =
                exception("key or \"}\" expected", 1, 8, "basic_reader")
          /\ feed_all(Machine, TrailingArray).exc =
                exception("value or \"]\" expected", 1, 4, "basic_reader")
    /\ FedChars \in {<<chr.lbrace, chr.rbrace>>, <<chr.lbracket, chr.rbracket>>} =>
          exc = NoExc /\ Len(items) = 2 /\ m_token_state = <<>>

TrailingCommaWitness ==
    /\ FedChars = <<chr.lbrace, chr.quote, chr.quote, chr.colon, chr.zero,
                    chr.comma>>
    /\ ErrorFree
    /\ m_token_state = <<"object_2_state">>
    /\ Raised(feed(Machine, chr.rbrace))

\* the lexer is in a number that may end here and this character does not
\* continue it
NumberEnds(input) ==
    \/ /\ m_char_state = "integer_n_state"
       /\ input \notin (chr.zero..chr.nine) \cup {chr.dot, chr.e, chr.E}
    \/ /\ m_char_state = "integer_z_state"
       /\ input \notin {chr.dot, chr.e, chr.E}
    \/ /\ m_char_state = "fractional_n_state"
       /\ input \notin (chr.zero..chr.nine) \cup {chr.e, chr.E}
    \/ /\ m_char_state = "exponent_n_state"
       /\ input \notin chr.zero..chr.nine

\* the outcome F of feeding input now: one or two scans, two only past the
\* end of a number; one move if the feed returns and none if it raises
Bounded(F, input) ==
    /\ F.scans \in {1, 2}
    /\ F.scans = 2 => NumberEnds(input)
    /\ (NumberEnds(input) /\ ~Raised(F)) => F.scans = 2
    /\ F.moves = IF Raised(F) THEN 0 ELSE 1
    /\ ~Raised(F) =>
          /\ F.m_row = IF input = chr.nl THEN m_row + 1 ELSE m_row
          /\ F.m_column = IF input = chr.nl THEN 1 ELSE m_column + 1

\* one scan in the Default state consumes the character or raises
Settles(S) == Raised(S) \/ S.ret

\* the feed this step made
FeedStep ==
    /\ Bounded(feed(Machine, fed'[Len(fed')].c), fed'[Len(fed')].c)
    /\ Settles(scan([Machine EXCEPT !.m_char_state = "default_state"],
                    fed'[Len(fed')].c))

\* C17: every feed of one character ends after at most two iterations of the
\* scan loop, the second only when the character ended a number and is
\* scanned again in the Default state, where scan consumes it or raises; the
\* position is advanced once per character fed successfully, whatever the
\* number of iterations.
FeedTerminates ==
    /\ \A input \in 0..127 :
          /\ Settles(scan(Machine, input))
          /\ feed(Machine, input).scans = 1
    /\ [][FeedStep]_vars

FeedTerminatesWitness ==
    /\ ErrorFree
    /\ FedChars = <<chr.lbracket, chr.one, chr.five, chr.rbracket>>
    /\ Len(items) = 3
    /\ m_column = 5

UnicodeStates == {"unicode_1_state", "unicode_2_state", "unicode_3_state",
                  "unicode_4_state"}

\* the value of a hexadecimal digit of either case
HexValue(c) ==
    IF c <= chr.nine THEN c - chr.zero
    ELSE IF c >= chr.a THEN c - chr.a + 10 ELSE c - chr.A + 10

\* the value of a sequence of hexadecimal digits
RECURSIVE CodePoint(_)
CodePoint(digits) ==
    IF digits = <<>> THEN 0
    ELSE CodePoint(SubSeq(digits, 1, Len(digits) - 1)) * 16
             + HexValue(digits[Len(digits)])

\* the UTF-8 encoding of v in 0..65535, a surrogate encoded like any other
Utf8(v) ==
    IF v < 128 THEN <<v>>
    ELSE IF v < 2048 THEN <<192 + (v \div 64), 128 + (v % 64)>>
    ELSE <<224 + (v \div 4096), 128 + ((v \div 64) % 64), 128 + (v % 64)>>

\* the digits of the escape consumed so far
Digits == SubSeq(Consumed, 5, IF Len(Consumed) < 8 THEN Len(Consumed) ELSE 8)

\* ["😀"]: a surrogate pair
Surrogates == <<chr.lbracket, chr.quote,
                chr.backslash, chr.u, chr.A + 3, chr.zero + 8,
                chr.zero + 3, chr.A + 3,
                chr.backslash, chr.u, chr.A + 3, chr.E,
                chr.zero, chr.zero,
                chr.quote, chr.rbracket>>

\* C18: the four hexadecimal digits of a \u escape, of either case, with
\* value v, make the reader append the UTF-8 encoding of v to the buffer: 1
\* byte below 0x80, 2 bytes below 0x800, 3 bytes otherwise, a surrogate being
\* encoded by itself and two of them never combined; the 16-bit accumulator
\* holds the value of the digits read so far, never overflows, and is 0
\* whenever the lexer is outside the four Unicode states.
UnicodeDecoding ==
    /\ m_char_state \notin UnicodeStates => m_unicode = 0
    /\ m_char_state \in UnicodeStates =>
          /\ m_unicode = CodePoint(Digits)
          /\ (m_unicode * 16) + 15 < 65536
    /\ (Len(Consumed) = 8 /\ exc = NoExc) =>
          /\ m_char_state = "string_state"
          /\ m_data = Utf8(CodePoint(Digits))
          /\ Len(m_data) = IF CodePoint(Digits) < 128 THEN 1
                           ELSE IF CodePoint(Digits) < 2048 THEN 2 ELSE 3
    /\ pending = <<>> =>
          /\ Len(items) = 3
          /\ Kinds(items)[2] = <<"string_value", Utf8(CodePoint(Digits))>>
    /\ fed = <<>> =>
          Kinds(feed_all(Machine, Surrogates).items)[2]
              = <<"string_value", <<237, 160, 189, 237, 184, 128>>>>

UnicodeDecodingWitness ==
    /\ pending = <<>>
    /\ exc = NoExc
    /\ Digits = <<chr.zero + 2, chr.zero, chr.a, chr.A + 2>>
    /\ items[2].data = <<226, 130, 172>>

Numbers == {"integer_value", "real_value"}

\* the character that completes the token of an Item that is not a number
LastChar(it) ==
    CASE it = "object_begin" -> chr.lbrace
      [] it = "object_end" -> chr.rbrace
      [] it = "array_begin" -> chr.lbracket
      [] it = "array_end" -> chr.rbracket
      [] it \in {"key", "string_value"} -> chr.quote
      [] it = "null_value" -> chr.l
      [] it \in {"true_value", "false_value"} -> chr.e

\* (row, column) a does not come after (row, column) b
NotAfter(a, b) == a.row < b.row \/ (a.row = b.row /\ a.column <= b.column)

\* the Items this step delivered came during the feed of its character c and
\* carry the position of c
ItemStep ==
    LET c == fed'[Len(fed')].c
        row == 1 + Count(Consumed, chr.nl)
        column == 1 + SinceNewline(Consumed)
        new == SubSeq(items', Len(items) + 1, Len(items'))
    IN /\ Len(items') >= Len(items)
       /\ SubSeq(items', 1, Len(items)) = items
       /\ Len(new) <= 2
       /\ Len(new) = 2 => new[1].item \in Numbers
       /\ \A i \in 1..Len(new) :
             /\ new[i].row = row
             /\ new[i].column = column
             /\ IF new[i].item \in Numbers
                THEN /\ i = 1
                     /\ NumberEnds(c)
                     /\ new[i].data = m_data
                     /\ m_data # <<>>
                ELSE /\ c = LastChar(new[i].item)
                     /\ new[i].item \in {"key", "string_value"} =>
                           (m_char_state = "string_state"
                                /\ new[i].data = m_data)

ItemState ==
    /\ \A i \in 1..Len(items) : \A j \in i..Len(items) :
          NotAfter(items[i], items[j])
    /\ FedChars = <<chr.lbracket, chr.one, chr.five>> =>
          Kinds(items) = <<<<"array_begin", <<>>>>>>
    /\ fed = <<>> =>
          Kinds(feed_all(Machine, <<chr.lbracket, chr.one, chr.two>>).items)
              = <<<<"array_begin", <<>>>>>>

\* C19: every Item is delivered during the feed of one character and carries
\* that character's row and column: the last character of the token for a
\* structural Item, a Key, a String and null/true/false; the character after
\* the number's last digit for an Integer or a Real, which is not delivered
\* before that character is fed (after [12 only ArrayBegin has been
\* delivered); Items are delivered in document order.
ItemTiming == []ItemState /\ [][ItemStep]_vars

ItemTimingWitness ==
    /\ ErrorFree
    /\ Consumed = <<chr.lbracket, chr.one, chr.dot, chr.five, chr.rbracket>>
    /\ Len(items) = 3
    /\ items[2] = [item |-> "real_value",
                   data |-> <<chr.one, chr.dot, chr.five>>,
                   row |-> 1, column |-> 5]
    /\ items[3].column = 5

\* the writer as constructed, with the indent width in use
NewWriter ==
    [Machine EXCEPT !.m_state = <<>>, !.output = <<>>, !.items = <<>>,
                    !.written = <<>>]

\* the writer W after the calls its, those that raise never made
RECURSIVE Legally(_, _)
Legally(W, its) ==
    IF its = <<>> THEN W
    ELSE LET N == write(W, Head(its).item, Head(its).data)
         IN Legally(IF Raised(N) THEN W ELSE N, Tail(its))

\* a write that raises leaves the output and the stack as they were
FailedWrite ==
    exc' # NoExc =>
        /\ exc'.thrower = "basic_writer"
        /\ output' = output
        /\ m_state' = m_state
        /\ written' = written

\* the output and the stack are those of the calls that did not raise
AsIfNeverMade ==
    /\ output = Legally(NewWriter, items).output
    /\ m_state = Legally(NewWriter, items).m_state

\* C20: a write that raises appends no character to the output and leaves the
\* writer's stack as it was, so the writes that follow produce the output and
\* the stack they would have produced had the failed call never been made.
WriterErrorFrame == []AsIfNeverMade /\ [][FailedWrite]_vars

WriterErrorFrameWitness ==
    /\ exc = NoExc
    /\ m_indent = 0
    /\ Len(items) = 3
    /\ items[2].item = "key"
    /\ written = <<"array_begin", "null_value">>
    /\ m_state = <<"array_n_state">>
    /\ output = <<chr.lbracket, chr.n, chr.u, chr.l, chr.l>>

\* the last feed raised an error of the reader
ReaderRaised == exc # NoExc /\ exc.thrower = "basic_reader"

\* the reader as a raising feed would have to leave it, were nothing touched
PreservedOnError ==
    ReaderRaised' =>
        /\ items' = items
        /\ m_token_state' = m_token_state
        /\ m_char_state' = m_char_state
        /\ m_data' = m_data

\* C21: a feed of one character that raises an error delivers no Item during
\* that feed and leaves the reader's context stack, lexer state and literal
\* buffer as they were before the character was fed.
ReaderErrorFrame == [][PreservedOnError]_vars

\* the character c completes a token where the lexer stands
Lexed(c) ==
    \/ NumberEnds(c)
    \/ /\ m_char_state = "default_state"
       /\ c \in {chr.lbrace, chr.rbrace, chr.lbracket, chr.rbracket,
                 chr.colon, chr.comma}
    \/ m_char_state = "string_state" /\ c = chr.quote
    \/ m_char_state = "null_3_state" /\ c = chr.l
    \/ m_char_state \in {"true_3_state", "false_4_state"} /\ c = chr.e

\* the grammar expects a value
ValueTop ==
    /\ m_token_state # <<>>
    /\ Top(m_token_state) \in {"object_v_state", "array_1_state",
                               "array_v_state"}

\* the stack once the value expected has been taken
AfterValue ==
    [m_token_state EXCEPT ![Len(m_token_state)] =
        IF @ = "object_v_state" THEN "object_n_state" ELSE "array_n_state"]

\* what a feed that raises leaves behind
RaisedFeed ==
    LET c == fed'[Len(fed')].c
    IN ReaderRaised' =>
          /\ m_token_state' =
                 IF Lexed(c) /\ ValueTop THEN AfterValue ELSE m_token_state
          /\ IF NumberEnds(c) /\ ValueTop
             THEN /\ Len(items') = Len(items) + 1
                  /\ SubSeq(items', 1, Len(items)) = items
                  /\ items'[Len(items')].item \in Numbers
                  /\ items'[Len(items')].data = m_data
                  /\ m_char_state' = "default_state"
                  /\ m_data' = <<>>
             ELSE /\ items' = items
                  /\ m_char_state' = m_char_state
                  /\ m_data' = m_data

\* C21, as amended: a raising feed delivers no Item and leaves the lexer state
\* and the buffer as they were, unless its character ended a number where a
\* value was expected: then the number's Item is delivered, the buffer is
\* emptied and the lexer is in the Default state. The stack is as it was,
\* except that a top expecting a value has become the state after a value
\* when the character completed a token.
ReaderErrorEffect == [][RaisedFeed]_vars

ReaderErrorEffectWitness ==
    /\ FedChars = <<chr.lbracket, chr.one, chr.lbracket>>
    /\ exc = exception("\"]\" or \",\" expected", 1, 3, "basic_reader")
    /\ Kinds(items) = <<<<"array_begin", <<>>>>,
                        <<"integer_value", <<chr.one>>>>>>
    /\ m_token_state = <<"array_n_state">>
    /\ m_char_state = "default_state"

\* the last character fed delivered the End that emptied the stack
Ended ==
    /\ ErrorFree
    /\ m_token_state = <<>>
    /\ items # <<>>
    /\ items[Len(items)].item \in Ends
    /\ items[Len(items)].row = m_row
    /\ items[Len(items)].column = m_column - 1

\* a reader and a writer as constructed, standing at the current position
FreshHere == [Fresh EXCEPT !.m_row = m_row, !.m_column = m_column]

BeginTokens == {"object_begin_token", "array_begin_token"}

\* the reader takes token t as a new reader would
AsFresh(T, F, t) ==
    /\ T.exc = F.exc
    /\ T.m_token_state = F.m_token_state
    /\ T.m_state = F.m_state
    /\ SubSeq(T.items, Len(items) + 1, Len(T.items)) = F.items
    /\ IF t \in BeginTokens
       THEN /\ ~Raised(T)
            /\ Len(T.m_token_state) = 1
            /\ Len(T.items) = Len(items) + 1
            /\ T.items[Len(T.items)].item \in Begins
       ELSE /\ T.exc = exception("\"{\" or \"[\" expected", m_row, m_column,
                                 "basic_reader")
            /\ T.items = items

\* the writer takes Item it as a new writer would
WrittenAsFresh(W, it) ==
    IF it \in Begins
    THEN /\ ~Raised(W)
         /\ Len(W.m_state) = 1
         /\ Len(W.output) = Len(output) + 1
    ELSE /\ W.exc = exception("object or array begin expected", 0, 0,
                              "basic_writer")
         /\ W.output = output

\* {}{}
TwoDocuments == <<chr.lbrace, chr.rbrace, chr.lbrace, chr.rbrace>>

\* C22: after the End that empties the stack the reader and the writer stand
\* where new ones stand: a further ObjectBegin or ArrayBegin is accepted and
\* starts another document ({}{} delivers ObjectBegin, ObjectEnd, ObjectBegin,
\* ObjectEnd without error, the columns counting on), any other token or Item
\* raises the top-level error, and the stack is empty again after each
\* document of the run.
EndNotTerminal ==
    /\ Ended =>
          /\ m_char_state = "default_state"
          /\ m_data = <<>>
          /\ m_unicode = 0
          /\ m_state = <<>>
          /\ output # <<>>
          /\ \A t \in tokens :
                AsFresh(token(Machine, t), token(FreshHere, t), t)
          /\ \A it \in item :
                WrittenAsFresh(write(Machine, it, <<>>), it)
    /\ (ErrorFree /\ FedChars = TwoDocuments) =>
          /\ items = <<[item |-> "object_begin", data |-> <<>>,
                        row |-> 1, column |-> 1],
                       [item |-> "object_end", data |-> <<>>,
                        row |-> 1, column |-> 2],
                       [item |-> "object_begin", data |-> <<>>,
                        row |-> 1, column |-> 3],
                       [item |-> "object_end", data |-> <<>>,
                        row |-> 1, column |-> 4]>>
          /\ m_column = 5
          /\ output = TwoDocuments

EndNotTerminalWitness ==
    /\ ErrorFree
    /\ FedChars = TwoDocuments
    /\ Ended
    /\ Len(items) = 4
    /\ written = <<"object_begin", "object_end", "object_begin",
                   "object_end">>
    /\ m_token_state = <<>>

====
